---------------------------- MODULE Spec2Model ----------------------------
(***************************************************************************)
(* SpeakBox backend: the moderation service, the generation helper, the    *)
(* room endpoints and the websocket fan-out, as state machines.            *)
(*                                                                         *)
(* A Python str is a sequence of one-character strings, so that strip,     *)
(* lower, upper, split, startswith and the substring test are computed     *)
(* character by character, as the interpreter computes them.               *)
(***************************************************************************)
EXTENDS Naturals, Sequences, FiniteSets, TLC

VARIABLES
    client,              \* self.client is set (GEMINI_API_KEY was configured)
    call,                \* the service call in progress / its returned value
    rooms,               \* main.rooms: the dict, in insertion order
    req,                 \* create_room coroutines, one per request slot
    active_connections,  \* ConnectionManager.active_connections
    ws,                  \* websocket_endpoint coroutines, one per connection
    received             \* what each websocket has been sent

vars == <<client, call, rooms, req, active_connections, ws, received>>

-----------------------------------------------------------------------------
(* Bounds of the model.                                                    *)

\* longest run of padding characters put around an input text
MaxPad == 1
\* concurrent create_room requests
NumRequests == 2
\* how many values uuid4().hex[:8] ranges over in the model
NumIds == 2
\* texts one websocket client sends before it disconnects
MaxSends == 1

-----------------------------------------------------------------------------
(* Characters and the str methods the code uses.                           *)

\* U+2022, the bullet glyph of the audio prompt
Bullet == "BULLET"

Whitespace == {" ", "\n", "\t", "\r"}

ToLower ==
    ("A" :> "a") @@ ("B" :> "b") @@ ("C" :> "c") @@ ("D" :> "d") @@
    ("E" :> "e") @@ ("F" :> "f") @@ ("G" :> "g") @@ ("H" :> "h") @@
    ("I" :> "i") @@ ("J" :> "j") @@ ("K" :> "k") @@ ("L" :> "l") @@
    ("M" :> "m") @@ ("N" :> "n") @@ ("O" :> "o") @@ ("P" :> "p") @@
    ("Q" :> "q") @@ ("R" :> "r") @@ ("S" :> "s") @@ ("T" :> "t") @@
    ("U" :> "u") @@ ("V" :> "v") @@ ("W" :> "w") @@ ("X" :> "x") @@
    ("Y" :> "y") @@ ("Z" :> "z")

LowerChar(c) == IF c \in DOMAIN ToLower THEN ToLower[c] ELSE c

ToUpper ==
    [c \in {ToLower[u] : u \in DOMAIN ToLower} |->
        CHOOSE u \in DOMAIN ToLower : ToLower[u] = c]

UpperChar(c) == IF c \in DOMAIN ToUpper THEN ToUpper[c] ELSE c

\* str.lower()
Lower(s) == [i \in 1..Len(s) |-> LowerChar(s[i])]

\* str.upper()
Upper(s) == [i \in 1..Len(s) |-> UpperChar(s[i])]

RECURSIVE LStripChars(_, _)
LStripChars(s, cs) ==
    IF s # <<>> /\ Head(s) \in cs THEN LStripChars(Tail(s), cs) ELSE s

RECURSIVE RStripChars(_, _)
RStripChars(s, cs) ==
    IF s # <<>> /\ s[Len(s)] \in cs
    THEN RStripChars(SubSeq(s, 1, Len(s) - 1), cs)
    ELSE s

\* str.strip(chars)
StripChars(s, cs) == RStripChars(LStripChars(s, cs), cs)

\* str.strip()
Strip(s) == StripChars(s, Whitespace)

\* str.startswith(p)
StartsWith(s, p) == Len(s) >= Len(p) /\ \A j \in 1..Len(p) : s[j] = p[j]

\* str.endswith(p)
EndsWith(s, p) ==
    Len(s) >= Len(p) /\ \A j \in 1..Len(p) : s[Len(s) - Len(p) + j] = p[j]

\* k in s
Contains(s, k) ==
    \E i \in 0..Len(s) :
        i + Len(k) <= Len(s) /\ \A j \in 1..Len(k) : s[i + j] = k[j]

\* str.split(sep), sep one character
RECURSIVE Split(_, _)
Split(s, sep) ==
    IF \A i \in 1..Len(s) : s[i] # sep
    THEN <<s>>
    ELSE LET i == CHOOSE n \in 1..Len(s) :
                      s[n] = sep /\ \A j \in 1..(n - 1) : s[j] # sep
         IN  <<SubSeq(s, 1, i - 1)>> \o Split(SubSeq(s, i + 1, Len(s)), sep)

\* sep.join(lines), sep one character
RECURSIVE Join(_, _)
Join(lines, sep) ==
    IF lines = <<>> THEN <<>>
    ELSE IF Len(lines) = 1 THEN lines[1]
    ELSE lines[1] \o <<sep>> \o Join(Tail(lines), sep)

SeqsUpTo(S, n) == UNION {[1..k -> S] : k \in 0..n}

-----------------------------------------------------------------------------
(* The external generative-AI call: it raises, or it returns a text.       *)

Raise == [kind |-> "raise"]
Text(t) == [kind |-> "text", text |-> t]
NotConsulted == [kind |-> "not_consulted"]
None == [kind |-> "none"]

-----------------------------------------------------------------------------
(* ModerationService                                                       *)

BLOCKLIST_KEYWORDS == <<
        <<"n", "-", "w", "o", "r", "d">>,
        <<"k", "-", "w", "o", "r", "d">>,
        <<"r", "a", "c", "i", "a", "l", " ", "s", "l", "u", "r">>,
        <<"k", "i", "l", "l", " ", "a", "l", "l">>,
        <<"d", "e", "a", "t", "h", " ", "t", "o">>,
        <<"g", "e", "n", "o", "c", "i", "d", "e">>,
        <<"m", "a", "s", "s", " ", "s", "h", "o", "o", "t", "i", "n", "g">>,
        <<"w", "h", "i", "t", "e", " ", "s", "u", "p", "r", "e", "m", "a", "c", "y">>,
        <<"n", "a", "z", "i">>,
        <<"h", "o", "l", "o", "c", "a", "u", "s", "t", " ", "d", "e", "n", "i", "a", "l">>
    >>

ProhibitedTerms ==
    <<"C", "o", "n", "t", "e", "n", "t", " ", "c", "o", "n", "t", "a", "i",
      "n", "s", " ", "p", "r", "o", "h", "i", "b", "i", "t", "e", "d", " ",
      "t", "e", "r", "m", "s", ".">>

FlaggedByAI ==
    <<"F", "l", "a", "g", "g", "e", "d", " ", "b", "y", " ", "A", "I", " ",
      "m", "o", "d", "e", "r", "a", "t", "i", "o", "n", ".">>

UNSAFE == <<"U", "N", "S", "A", "F", "E">>

\* check_blocklist without the lowercasing of the text
check_blocklist_no_lower(text) ==
    IF \E n \in 1..Len(BLOCKLIST_KEYWORDS) : Contains(text, BLOCKLIST_KEYWORDS[n])
    THEN <<FALSE, ProhibitedTerms>>
    ELSE <<TRUE, <<>>>>

check_blocklist(text) ==
    LET text_lower == Lower(text)
    IN  IF \E n \in 1..Len(BLOCKLIST_KEYWORDS) :
               Contains(text_lower, BLOCKLIST_KEYWORDS[n])
        THEN <<FALSE, ProhibitedTerms>>
        ELSE <<TRUE, <<>>>>

\* the verdict parsed from the classifier's response text
parse_verdict(response_text) ==
    LET result == Strip(response_text)
    IN  IF StartsWith(Upper(result), UNSAFE)
        THEN LET lines == Split(result, "\n")
             IN  <<FALSE, IF Len(lines) > 1 THEN Strip(lines[2]) ELSE FlaggedByAI>>
        ELSE <<TRUE, <<>>>>

\* ai_stage failing closed: an error of the external call rejects the content
ai_stage_fail_closed(out) ==
    IF out.kind = "raise" THEN <<FALSE, FlaggedByAI>> ELSE parse_verdict(out.text)

\* lines 67-85: the external call ends as out; the except clause fails open
ai_stage(out) ==
    IF out.kind = "raise" THEN <<TRUE, <<>>>> ELSE parse_verdict(out.text)

\* moderate_content(text): every (is_safe, reason) it can return, each with
\* the outcome of the external call it made (ai), the call's outcome being
\* any of outcomes
moderate_content(text, has_client, outcomes) ==
    LET bl == check_blocklist(text)
    IN  IF ~bl[1]
        THEN {[is_safe |-> FALSE, reason |-> bl[2], ai |-> NotConsulted]}
        ELSE IF has_client
        THEN {[is_safe |-> ai_stage(out)[1], reason |-> ai_stage(out)[2], ai |-> out] :
                  out \in outcomes}
        ELSE {[is_safe |-> TRUE, reason |-> <<>>, ai |-> NotConsulted]}

-----------------------------------------------------------------------------
(* LLMService                                                              *)

Quotes == {"\"", "'"}

QuestionMark == <<"?">>

ThoughtsOn ==
    <<"W", "h", "a", "t", " ", "a", "r", "e", " ", "y", "o", "u", "r", " ",
      "t", "h", "o", "u", "g", "h", "t", "s", " ", "o", "n", " ">>

\* f"What are your thoughts on {topic}?"
fallback_question(topic) == ThoughtsOn \o topic \o QuestionMark

\* clean_question stripping double quotes only
clean_question_double_only(response_text) ==
    LET result == StripChars(Strip(response_text), {"\""})
    IN  IF EndsWith(result, QuestionMark) THEN result ELSE result \o QuestionMark

\* lines 228-237: strip, strip the quotes, ensure the trailing "?"
clean_question(response_text) ==
    LET result == StripChars(Strip(response_text), Quotes)
    IN  IF EndsWith(result, QuestionMark) THEN result ELSE result \o QuestionMark

\* generate_opening_question(topic): every string it can return, each with
\* the outcome of the external call it made
generate_opening_question(topic, has_client, outcomes) ==
    IF ~has_client
    THEN {[ret |-> fallback_question(topic), ai |-> NotConsulted]}
    ELSE {[ret |-> IF out.kind = "raise" THEN fallback_question(topic)
                   ELSE clean_question(out.text),
           ai  |-> out] : out \in outcomes}

VoiceContribution ==
    <<"V", "o", "i", "c", "e", " ", "c", "o", "n", "t", "r", "i", "b", "u",
      "t", "i", "o", "n">>

BulletVoiceContribution == <<Bullet, " ">> \o VoiceContribution

BulletVoiceContributionRecorded ==
    BulletVoiceContribution \o <<" ", "r", "e", "c", "o", "r", "d", "e", "d">>

\* [line for line in lines if line.strip().startswith(bullet)]
RECURSIVE bullet_lines(_)
bullet_lines(lines) ==
    IF lines = <<>> THEN <<>>
    ELSE (IF StartsWith(Strip(Head(lines)), <<Bullet>>)
          THEN <<Head(lines)>> ELSE <<>>) \o bullet_lines(Tail(lines))

\* lines 173-181: the clean-up of the summary
clean_summary(response_text) ==
    LET stripped == Strip(response_text)
        summary  == IF ~StartsWith(stripped, <<Bullet>>)
                    THEN Join(bullet_lines(Split(stripped, "\n")), "\n")
                    ELSE stripped
    IN  IF summary = <<>> THEN BulletVoiceContributionRecorded ELSE summary

\* transcribe_and_summarize_audio(audio_bytes): every pair it can return
transcribe_and_summarize_audio(audio_bytes, has_client, outcomes) ==
    IF ~has_client
    THEN {[ret |-> << <<>>, VoiceContribution >>, ai |-> NotConsulted]}
    ELSE {[ret |-> IF out.kind = "raise" THEN << <<>>, BulletVoiceContribution >>
                   ELSE << <<>>, clean_summary(out.text) >>,
           ai  |-> out] : out \in outcomes}

-----------------------------------------------------------------------------
(* Inputs of the service calls.                                            *)

PadChars == {" ", "x"}

Pads == SeqsUpTo(PadChars, MaxPad)

\* every other letter in upper case
Mixed(s) == [i \in 1..Len(s) |-> IF i % 2 = 1 THEN UpperChar(s[i]) ELSE s[i]]

\* the keyword without its last character: a near miss
Chop(s) == SubSeq(s, 1, Len(s) - 1)

Keywords == {BLOCKLIST_KEYWORDS[n] : n \in 1..Len(BLOCKLIST_KEYWORDS)}

CleanWords == {<<>>, <<"d", "e", "b", "a", "t", "e">>}

Cores ==
    Keywords \cup {Upper(k) : k \in Keywords} \cup {Mixed(k) : k \in Keywords}
        \cup {Chop(k) : k \in Keywords} \cup CleanWords

ModTexts == {pre \o core \o post : pre \in Pads, core \in Cores, post \in Pads}

HateSpeech == <<"H", "a", "t", "e", " ", "s", "p", "e", "e", "c", "h">>

Verdicts ==
    { UNSAFE, Lower(UNSAFE), Mixed(UNSAFE), UNSAFE \o <<"L", "Y">>,
      <<"S", "A", "F", "E">>, <<>> }

VerdictTails ==
    { <<>>, <<"\n">>, <<"\n">> \o HateSpeech, <<" ", "\n", " ">> \o HateSpeech \o <<" ">>,
      <<"\n", "\n">> \o HateSpeech, <<"\n", " ", "\n">>, <<":", " ">> \o HateSpeech }

ModResponses ==
    {pre \o v \o t : pre \in {<<>>, <<" ">>, <<"\n">>}, v \in Verdicts, t \in VerdictTails}

ModOutcomes == {Raise} \cup {Text(t) : t \in ModResponses}

Topics == { <<"M", "o", "n", "e", "y">>, <<"\"", "A", "I", "\"">>, <<"'">>, <<>> }

QuestionBodies ==
    { <<>>, <<"W", "h", "y">>, <<"W", "h", "y", "?">>, <<"a", "\"", "b">>, <<"?">> }

QuotePads == SeqsUpTo(Quotes \cup {" "}, MaxPad + 1)

QuestionResponses ==
    {pre \o b \o post : pre \in QuotePads, b \in QuestionBodies, post \in QuotePads}

QuestionOutcomes == {Raise} \cup {Text(t) : t \in QuestionResponses}

SummaryLines ==
    { <<>>, <<Bullet, " ", "A">>, <<"A">>, <<" ", Bullet, "B">>, <<"-", " ", "C">> }

SummaryResponses ==
    {pre \o l1 \o sep \o l2 :
        pre \in Pads, l1 \in SummaryLines, sep \in {<<>>, <<"\n">>}, l2 \in SummaryLines}

SummaryOutcomes == {Raise} \cup {Text(t) : t \in SummaryResponses}

AudioInputs == {"audio"}

-----------------------------------------------------------------------------
(* State after construction.                                               *)

Requests == 1..NumRequests

Sockets == 1..3

Idle == [op |-> "idle"]

\* a websocket whose handler has not started; msg and idx are the message
\* and the loop index of the handler's broadcast, start is the registry as
\* the broadcast found it, steady whether the registry has stayed so since
NewSocket ==
    [ pc |-> "new", sent |-> 0, msg |-> <<>>, idx |-> 0, start |-> <<>>,
      steady |-> TRUE ]

IdleRequest ==
    [ pc |-> "idle", title |-> <<>>, topic |-> <<>>, trace |-> <<>>,
      title_verdict |-> None, topic_verdict |-> None, resp |-> None ]

Init ==
    /\ client \in BOOLEAN
    /\ call = Idle
    /\ rooms = <<>>
    /\ req = [p \in Requests |-> IdleRequest]
    /\ active_connections = <<>>
    /\ ws = [w \in Sockets |-> NewSocket]
    /\ received = [w \in Sockets |-> {}]

-----------------------------------------------------------------------------
(* Calls of the services.                                                  *)

\* POST /api/moderate
PostModerate ==
    /\ call.op = "idle"
    /\ \E text \in ModTexts :
          \E r \in moderate_content(text, client, ModOutcomes) :
              call' = [ op   |-> "moderate",
                        arg  |-> text,
                        ai   |-> r.ai,
                        ret  |-> <<r.is_safe, r.reason>>,
                        resp |-> [ is_safe |-> r.is_safe,
                                   reason  |-> IF ~r.is_safe THEN Text(r.reason)
                                               ELSE None ] ]
    /\ UNCHANGED <<client, rooms, req, active_connections, ws, received>>

GenerateOpeningQuestion ==
    /\ call.op = "idle"
    /\ \E topic \in Topics :
          \E r \in generate_opening_question(topic, client, QuestionOutcomes) :
              call' = [op |-> "question", arg |-> topic, ai |-> r.ai, ret |-> r.ret]
    /\ UNCHANGED <<client, rooms, req, active_connections, ws, received>>

TranscribeAndSummarizeAudio ==
    /\ call.op = "idle"
    /\ \E audio \in AudioInputs :
          \E r \in transcribe_and_summarize_audio(audio, client, SummaryOutcomes) :
              call' = [op |-> "audio", arg |-> audio, ai |-> r.ai, ret |-> r.ret]
    /\ UNCHANGED <<client, rooms, req, active_connections, ws, received>>

\* the caller has the result; the next call may start
Return ==
    /\ call.op # "idle"
    /\ call' = Idle
    /\ UNCHANGED <<client, rooms, req, active_connections, ws, received>>

NextServices ==
    \/ PostModerate
    \/ GenerateOpeningQuestion
    \/ TranscribeAndSummarizeAudio
    \/ Return

SpecServices == Init /\ [][NextServices]_vars

-----------------------------------------------------------------------------
(* Properties of the services, checked under SpecServices.                 *)

\* the lowercased text holds a blocklist keyword, compared character by character
HasKeyword(text) ==
    \E k \in Keywords : \E i \in 0..Len(text) :
        /\ i + Len(k) <= Len(text)
        /\ \A j \in 1..Len(k) : LowerChar(text[i + j]) = k[j]

\* C1: a text whose lowercased form contains a blocklist keyword is answered
\* (False, "Content contains prohibited terms."), with or without a client,
\* and the classifier is not consulted for it.
C1_BlocklistRejects ==
    (call.op = "moderate" /\ HasKeyword(call.arg))
        => /\ call.ret = <<FALSE, ProhibitedTerms>>
           /\ call.ai = NotConsulted

\* a keyword written in upper case was rejected while a client was configured
C1_Witness ==
    /\ call.op = "moderate"
    /\ client
    /\ HasKeyword(call.arg)
    /\ ~(\E k \in Keywords : Contains(call.arg, k))
    /\ call.ret[1] = FALSE

\* C2: a text with no blocklist keyword is answered (True, "") whenever no
\* client is configured or the external call raised; the call returns a value.
C2_FailsOpen ==
    (call.op = "moderate" /\ ~HasKeyword(call.arg) /\ (~client \/ call.ai = Raise))
        => call.ret = <<TRUE, <<>>>>

\* the external call was made for a clean text and raised
C2_Witness ==
    /\ call.op = "moderate"
    /\ client
    /\ call.ai = Raise
    /\ call.ret[1] = TRUE

\* C10 as stated: the reason is empty exactly when the verdict is safe, so
\* the response of /api/moderate never carries an empty reason.
C10_UnsafeHasReason ==
    call.op = "moderate"
        => /\ (call.ret[2] = <<>>) <=> call.ret[1]
           /\ call.resp.reason # Text(<<>>)

\* C7: the opening question ends with "?" and neither begins nor ends with
\* a single or double quote, whatever the external call did.
C7_QuestionShape ==
    call.op = "question"
        => /\ EndsWith(call.ret, QuestionMark)
           /\ call.ret[1] \notin Quotes
           /\ call.ret[Len(call.ret)] \notin Quotes

\* the response was wrapped in two kinds of quotes and had no question mark
C7_Witness ==
    /\ call.op = "question"
    /\ call.ai.kind = "text"
    /\ Len(call.ai.text) >= 4
    /\ call.ai.text[1] = "'"
    /\ call.ai.text[2] = "\""
    /\ call.ai.text[Len(call.ai.text)] \in Quotes
    /\ ~Contains(call.ai.text, QuestionMark)
    /\ Len(call.ret) > 1

\* C8 as stated: the pair is ("", summary), summary is not empty and every
\* line of it starts with the bullet glyph.
C8_SummaryIsBullets ==
    call.op = "audio"
        => /\ call.ret[1] = <<>>
           /\ call.ret[2] # <<>>
           /\ LET lines == Split(call.ret[2], "\n")
              IN  \A n \in 1..Len(lines) : StartsWith(lines[n], <<Bullet>>)

-----------------------------------------------------------------------------
(* main.py: the room endpoints.                                            *)

MIN_TITLE == 3
MAX_TITLE == 50
MIN_TOPIC == 10
MAX_TOPIC == 200

TitleTooShort ==
    <<"T", "i", "t", "l", "e", " ", "m", "u", "s", "t", " ", "b", "e", " ",
      "a", "t", " ", "l", "e", "a", "s", "t", " ", "3", " ", "c", "h", "a",
      "r", "a", "c", "t", "e", "r", "s", ".">>

TitleTooLong ==
    <<"T", "i", "t", "l", "e", " ", "m", "u", "s", "t", " ", "b", "e", " ",
      "u", "n", "d", "e", "r", " ", "5", "0", " ", "c", "h", "a", "r", "a",
      "c", "t", "e", "r", "s", ".">>

TopicTooShort ==
    <<"T", "o", "p", "i", "c", " ", "m", "u", "s", "t", " ", "b", "e", " ",
      "a", "t", " ", "l", "e", "a", "s", "t", " ", "1", "0", " ", "c", "h",
      "a", "r", "a", "c", "t", "e", "r", "s", ".">>

TopicTooLong ==
    <<"T", "o", "p", "i", "c", " ", "m", "u", "s", "t", " ", "b", "e", " ",
      "u", "n", "d", "e", "r", " ", "2", "0", "0", " ", "c", "h", "a", "r",
      "a", "c", "t", "e", "r", "s", ".">>

TitleRejected ==
    <<"T", "i", "t", "l", "e", " ", "r", "e", "j", "e", "c", "t", "e", "d",
      ":", " ">>

TopicRejected ==
    <<"T", "o", "p", "i", "c", " ", "r", "e", "j", "e", "c", "t", "e", "d",
      ":", " ">>

DefaultColor ==
    <<"f", "r", "o", "m", "-", "e", "m", "e", "r", "a", "l", "d", "-", "5",
      "0", "0", " ", "t", "o", "-", "t", "e", "a", "l", "-", "4", "0", "0">>

\* a dict is the sequence of its items, in insertion order
DictHas(d, k) == \E i \in 1..Len(d) : d[i].key = k

DictGet(d, k) == d[CHOOSE i \in 1..Len(d) : d[i].key = k].value

\* d[k] = v
DictSet(d, k, v) ==
    IF DictHas(d, k)
    THEN [i \in 1..Len(d) |-> IF d[i].key = k THEN [key |-> k, value |-> v] ELSE d[i]]
    ELSE Append(d, [key |-> k, value |-> v])

\* list(d.values())
DictValues(d) == [i \in 1..Len(d) |-> d[i].value]

\* f"custom-{uuid.uuid4().hex[:8]}": eight hex digits of a random uuid; the
\* model draws the digits from NumIds values
RoomIds == {<<"custom-", h>> : h \in 1..NumIds}

\* validate with the upper bounds tested with >=
validate_upper_inclusive(title, topic) ==
    IF Len(Strip(title)) < MIN_TITLE THEN Text(TitleTooShort)
    ELSE IF Len(title) >= MAX_TITLE THEN Text(TitleTooLong)
    ELSE IF Len(Strip(topic)) < MIN_TOPIC THEN Text(TopicTooShort)
    ELSE IF Len(topic) >= MAX_TOPIC THEN Text(TopicTooLong)
    ELSE None

\* lines 65-77: the error of the first failing length test, or None
validate(title, topic) ==
    IF Len(Strip(title)) < MIN_TITLE THEN Text(TitleTooShort)
    ELSE IF Len(title) > MAX_TITLE THEN Text(TitleTooLong)
    ELSE IF Len(Strip(topic)) < MIN_TOPIC THEN Text(TopicTooShort)
    ELSE IF Len(topic) > MAX_TOPIC THEN Text(TopicTooLong)
    ELSE None

\* CreateRoomResponse(success=False, error=...)
Failure(error) ==
    [success |-> FALSE, room_id |-> None, error |-> Text(error),
     opening_question |-> None]

\* lines 93-100: the stored room
Room(room_id, title, topic, opening_question) ==
    [ id               |-> room_id,
      title            |-> Strip(title),
      topic            |-> Strip(topic),
      opening_question |-> opening_question,
      participants     |-> 0,
      color            |-> DefaultColor ]

\* The handler runs from one await to the next in one step.  The awaited
\* service coroutines never suspend, so the steps below are a superset of
\* the interleavings the event loop produces.

\* lines 62-77: the request arrives and its lengths are validated
CreateRoomBegin(p, titles, topics) ==
    /\ req[p].pc = "idle"
    /\ \E title \in titles, topic \in topics :
          \E err \in {validate(title, topic)} :
              req' = [req EXCEPT ![p] =
                        [ pc            |-> IF err = None THEN "await_title" ELSE "done",
                          title         |-> title,
                          topic         |-> topic,
                          trace         |-> <<"validate">>,
                          title_verdict |-> None,
                          topic_verdict |-> None,
                          resp          |-> IF err = None THEN None
                                            ELSE Failure(err.text) ]]
    /\ UNCHANGED <<client, call, rooms, active_connections, ws, received>>

\* ModerateTitle without the test of the verdict on the title
ModerateTitleIgnoringVerdict(p, outcomes) ==
    /\ req[p].pc = "await_title"
    /\ \E r \in moderate_content(req[p].title, client, outcomes) :
          req' = [req EXCEPT ![p] =
                    [@ EXCEPT !.pc            = "await_topic",
                              !.trace         = Append(@, "moderate_title"),
                              !.title_verdict = [is_safe |-> r.is_safe,
                                                 reason  |-> r.reason]]]
    /\ UNCHANGED <<client, call, rooms, active_connections, ws, received>>

\* lines 80-82: moderation of the title
ModerateTitle(p, outcomes) ==
    /\ req[p].pc = "await_title"
    /\ \E r \in moderate_content(req[p].title, client, outcomes) :
          req' = [req EXCEPT ![p] =
                    [@ EXCEPT !.pc            = IF r.is_safe THEN "await_topic" ELSE "done",
                              !.trace         = Append(@, "moderate_title"),
                              !.title_verdict = [is_safe |-> r.is_safe,
                                                 reason  |-> r.reason],
                              !.resp          = IF r.is_safe THEN None
                                                ELSE Failure(TitleRejected \o r.reason)]]
    /\ UNCHANGED <<client, call, rooms, active_connections, ws, received>>

\* lines 84-86: moderation of the topic
ModerateTopic(p, outcomes) ==
    /\ req[p].pc = "await_topic"
    /\ \E r \in moderate_content(req[p].topic, client, outcomes) :
          req' = [req EXCEPT ![p] =
                    [@ EXCEPT !.pc            = IF r.is_safe THEN "await_question" ELSE "done",
                              !.trace         = Append(@, "moderate_topic"),
                              !.topic_verdict = [is_safe |-> r.is_safe,
                                                 reason  |-> r.reason],
                              !.resp          = IF r.is_safe THEN None
                                                ELSE Failure(TopicRejected \o r.reason)]]
    /\ UNCHANGED <<client, call, rooms, active_connections, ws, received>>

\* lines 89-106: the opening question is generated, the room is stored under
\* a fresh random identifier and the response is built
GenerateAndStore(p, outcomes) ==
    /\ req[p].pc = "await_question"
    /\ \E q \in generate_opening_question(req[p].topic, client, outcomes) :
          \E room_id \in RoomIds :
              /\ rooms' = DictSet(rooms, room_id,
                                  Room(room_id, req[p].title, req[p].topic, q.ret))
              /\ req' = [req EXCEPT ![p] =
                           [@ EXCEPT !.pc    = "done",
                                     !.trace = @ \o <<"generate", "store">>,
                                     !.resp  = [ success          |-> TRUE,
                                                 room_id          |-> room_id,
                                                 error            |-> None,
                                                 opening_question |-> Text(q.ret) ]]]
    /\ UNCHANGED <<client, call, active_connections, ws, received>>

\* the preset rooms of get_room; each text is kept as one token
PresetRooms ==
    ( <<"room-a">> :>
        [ id |-> <<"room-a">>, title |-> <<"Philosophical Debate">>,
          topic |-> <<"Is AI capable of true creativity?">>,
          opening_question |-> <<"Is free will an illusion? Share your perspective.">>,
          participants |-> 12, color |-> <<"from-blue-500 to-cyan-400">> ] )
    @@
    ( <<"room-b">> :>
        [ id |-> <<"room-b">>, title |-> <<"Policy Summit">>,
          topic |-> <<"Universal Basic Income vs. Guaranteed Jobs">>,
          opening_question |-> <<"Should AI be regulated? Debate the policy.">>,
          participants |-> 8, color |-> <<"from-purple-500 to-pink-400">> ] )

\* GET /api/rooms/{room_id}: what it returns in the current state
get_room(room_id) ==
    IF DictHas(rooms, room_id)
    THEN [status |-> 200, body |-> DictGet(rooms, room_id)]
    ELSE IF room_id \in DOMAIN PresetRooms
    THEN [status |-> 200, body |-> PresetRooms[room_id]]
    ELSE [status |-> 404, body |-> None]

\* GET /api/rooms: what it returns in the current state
get_rooms == [rooms |-> DictValues(rooms)]

LookupIds == RoomIds \cup DOMAIN PresetRooms \cup {<<"room-c">>}

\* the GET handlers read the mapping and change nothing
GetRoom ==
    /\ \E room_id \in LookupIds : get_room(room_id).status \in {200, 404}
    /\ UNCHANGED vars

GetRooms ==
    /\ Len(get_rooms.rooms) = Len(rooms)
    /\ UNCHANGED vars

-----------------------------------------------------------------------------
(* Inputs of create_room.                                                  *)

Fill(n) == [i \in 1..n |-> "a"]

Spaces(n) == [i \in 1..n |-> " "]

Padded(body) == {Spaces(l) \o body \o Spaces(t) : l \in 0..MaxPad, t \in 0..MaxPad}

\* titles and topics at and next to the four length limits, padded or not
BoundaryTitles ==
    UNION {Padded(Fill(n)) : n \in {MIN_TITLE - 1, MIN_TITLE, MAX_TITLE, MAX_TITLE + 1}}

BoundaryTopics ==
    UNION {Padded(Fill(n)) : n \in {MIN_TOPIC - 1, MIN_TOPIC, MAX_TOPIC, MAX_TOPIC + 1}}

SafeResponse == <<"S", "A", "F", "E">>

UnsafeResponse == UNSAFE \o <<"\n">> \o HateSpeech

CreateOutcomes == {Raise, Text(SafeResponse), Text(UnsafeResponse)}

CreateQuestionOutcomes == {Raise, Text(<<"\"", "W", "h", "y", "\"">>)}

\* a few titles and topics for the concurrent requests: valid, padded, too
\* short, blocklisted
RoomTitles ==
    { <<"a", "b", "c">>, <<" ", "x", "y", "z", " ">>, <<"a", "b", " ">>,
      <<"N", "a", "z", "i", "s">> }

RoomTopics == { Fill(MIN_TOPIC), <<"K", "i", "l", "l", " ", "a", "l", "l", "!", "!">> }

\* one create_room request, over the boundary inputs
NextCreate ==
    \/ CreateRoomBegin(1, BoundaryTitles, BoundaryTopics)
    \/ ModerateTitle(1, CreateOutcomes)
    \/ ModerateTopic(1, CreateOutcomes)
    \/ GenerateAndStore(1, CreateQuestionOutcomes)

SpecCreate == Init /\ [][NextCreate]_vars

\* concurrent create_room requests and the GET handlers
NextRooms ==
    \/ \E p \in Requests : CreateRoomBegin(p, RoomTitles, RoomTopics)
    \/ \E p \in Requests : ModerateTitle(p, CreateOutcomes)
    \/ \E p \in Requests : ModerateTopic(p, CreateOutcomes)
    \/ \E p \in Requests : GenerateAndStore(p, CreateQuestionOutcomes)
    \/ GetRoom
    \/ GetRooms

SpecRooms == Init /\ [][NextRooms]_vars

-----------------------------------------------------------------------------
(* Properties of create_room.                                              *)

Done(p) == req[p].pc = "done"

Succeeded(p) == Done(p) /\ req[p].resp.success

\* moderation passes the field: the verdict returned for it was safe, or,
\* where the handler returned before asking, no verdict on it can be unsafe
Passes(field, verdict) ==
    IF verdict # None THEN verdict.is_safe
    ELSE \A r \in moderate_content(field, client, CreateOutcomes) : r.is_safe

ModerationPasses(p) ==
    /\ Passes(req[p].title, req[p].title_verdict)
    /\ Passes(req[p].topic, req[p].topic_verdict)

TrimmedOutOfRange(p) ==
    \/ Len(Strip(req[p].title)) < MIN_TITLE
    \/ Len(Strip(req[p].title)) > MAX_TITLE
    \/ Len(Strip(req[p].topic)) < MIN_TOPIC
    \/ Len(Strip(req[p].topic)) > MAX_TOPIC

\* C3 as stated: out-of-range trimmed lengths are rejected, and every request
\* whose trimmed lengths are in range is accepted when moderation passes.
C3_TrimmedLengths ==
    Done(1) =>
        /\ TrimmedOutOfRange(1) => ~req[1].resp.success
        /\ (~TrimmedOutOfRange(1) /\ ModerationPasses(1)) => req[1].resp.success

\* C3, amended: out-of-range trimmed lengths are rejected, and a request is
\* accepted when moderation passes, its trimmed title has at least 3 and its
\* trimmed topic at least 10 characters, and the title and topic as sent
\* (untrimmed) have at most 50 and at most 200 characters.
C3_RawUpperBounds ==
    Done(1) =>
        /\ TrimmedOutOfRange(1) => ~req[1].resp.success
        /\ ( /\ Len(Strip(req[1].title)) >= MIN_TITLE
             /\ Len(req[1].title) <= MAX_TITLE
             /\ Len(Strip(req[1].topic)) >= MIN_TOPIC
             /\ Len(req[1].topic) <= MAX_TOPIC
             /\ ModerationPasses(1) ) => req[1].resp.success

\* a title of exactly 50 and a topic of exactly 200 characters were accepted
\* after the classifier passed both
C3_Witness ==
    /\ Succeeded(1)
    /\ Len(req[1].title) = MAX_TITLE
    /\ Len(req[1].topic) = MAX_TOPIC
    /\ client

FullOrder == <<"validate", "moderate_title", "moderate_topic", "generate", "store">>

InTrace(p, e) == \E n \in 1..Len(req[p].trace) : req[p].trace[n] = e

SafeVerdict(v) == v # None /\ v.is_safe

\* the order of the steps of every request, and what a stored room rests on
C9_Order ==
    \A p \in Requests :
        req[p].pc # "idle" =>
            /\ Len(req[p].trace) <= Len(FullOrder)
            /\ req[p].trace = SubSeq(FullOrder, 1, Len(req[p].trace))
            /\ InTrace(p, "generate") =>
                   /\ ~TrimmedOutOfRange(p)
                   /\ SafeVerdict(req[p].title_verdict)
                   /\ SafeVerdict(req[p].topic_verdict)
            /\ InTrace(p, "store") => InTrace(p, "generate")
            /\ (Done(p) /\ ~req[p].resp.success) =>
                   ~InTrace(p, "generate") /\ ~InTrace(p, "store")

\* a step that ends a request with success=false leaves the mapping as it
\* was, and the mapping changes only in the step that stores the room
C9_Frame ==
    /\ \A p \in Requests :
          (~Done(p) /\ req'[p].pc = "done" /\ ~req'[p].resp.success) => rooms' = rooms
    /\ rooms' # rooms =>
          \E p \in Requests :
              /\ req[p].trace = SubSeq(FullOrder, 1, 3)
              /\ req'[p].trace = FullOrder

\* C9: create_room validates, moderates the title, moderates the topic,
\* generates the question and stores the room, in that order; a call that
\* returns success=false never generated a question and leaves the room
\* mapping unchanged.
C9_ValidateModerateGenerateStore == []C9_Order /\ [][C9_Frame]_vars

\* one request was rejected on its topic after another had stored its room
C9_Witness ==
    \E p, q \in Requests :
        /\ Succeeded(p)
        /\ Done(q) /\ ~req[q].resp.success
        /\ req[q].trace = SubSeq(FullOrder, 1, 3)
        /\ Len(rooms) = 1

\* the room a successful request stored, as get_room is to return it
StoredRoom(p) ==
    Room(req[p].resp.room_id, req[p].title, req[p].topic,
         req[p].resp.opening_question.text)

\* C4 as stated: after a create_room succeeded with room_id R, get_room(R)
\* returns the fields stored at that creation, whatever happened since.
C4_StoredRoomsStable ==
    \A p \in Requests :
        Succeeded(p) =>
            get_room(req[p].resp.room_id) = [status |-> 200, body |-> StoredRoom(p)]

\* with pairwise distinct identifiers the stored rooms are stable: C4 fails
\* only where two creations drew the same identifier
StableWhileIdsDistinct ==
    (\A p, q \in Requests :
        (p # q /\ Succeeded(p) /\ Succeeded(q))
            => req[p].resp.room_id # req[q].resp.room_id)
        => C4_StoredRoomsStable

\* C5 as stated: no two successful create_room calls get the same room_id;
\* after n successful creations get_rooms lists n distinct rooms.
C5_UniqueRoomIds ==
    /\ \A p, q \in Requests :
          (p # q /\ Succeeded(p) /\ Succeeded(q))
              => req[p].resp.room_id # req[q].resp.room_id
    /\ Len(get_rooms.rooms) = Cardinality({p \in Requests : Succeeded(p)})

-----------------------------------------------------------------------------
(* The websocket endpoint and the connection registry.                     *)

\* the client_id of each websocket's path
ClientId == <<"A", "B", "C">>

Data == {"hi"}

\* f"Client #{client_id} says: {data}"
Says(w, data) == <<"Client #", ClientId[w], " says: ", data>>

\* f"Client #{client_id} left the chat"
Left(w) == <<"Client #", ClientId[w], " left the chat">>

\* ConnectionManager.connect, after the accept: the registry with w appended
manager_connect(connections, w) == Append(connections, w)

\* ConnectionManager.disconnect: the registry without w
manager_disconnect(connections, w) ==
    IF \E i \in 1..Len(connections) : connections[i] = w
    THEN LET i == CHOOSE n \in 1..Len(connections) :
                      connections[n] = w /\ \A j \in 1..(n - 1) : connections[j] # w
         IN  SubSeq(connections, 1, i - 1) \o SubSeq(connections, i + 1, Len(connections))
    ELSE connections

\* the broadcasts in progress see the registry change under them
Disturbed(sockets, w) ==
    [x \in Sockets |->
        IF x # w /\ sockets[x].pc \in {"broadcast", "farewell"}
        THEN [sockets[x] EXCEPT !.steady = FALSE, !.start = <<>>]
        ELSE sockets[x]]

\* line 206: await manager.connect(websocket)
Connect(w) ==
    /\ ws[w].pc = "new"
    /\ active_connections' = manager_connect(active_connections, w)
    /\ ws' = [Disturbed(ws, w) EXCEPT ![w].pc = "receive"]
    /\ UNCHANGED <<client, call, rooms, req, received>>

\* lines 209-210: a text arrives and its broadcast starts
ReceiveText(w) ==
    /\ ws[w].pc = "receive"
    /\ ws[w].sent < MaxSends
    /\ \E data \in Data :
          ws' = [ws EXCEPT ![w] =
                    [ pc |-> "broadcast", sent |-> ws[w].sent + 1,
                      msg |-> Says(w, data), idx |-> 1,
                      start |-> active_connections, steady |-> TRUE ]]
    /\ UNCHANGED <<client, call, rooms, req, active_connections, received>>

\* Disconnect without the removal: the farewell is broadcast to the
\* registry as it was, the websocket still in it
DisconnectAfterFarewell(w) ==
    /\ ws[w].pc = "receive"
    /\ ws' = [ws EXCEPT ![w] =
                [ pc |-> "farewell", sent |-> ws[w].sent,
                  msg |-> Left(w), idx |-> 1,
                  start |-> active_connections, steady |-> TRUE ]]
    /\ UNCHANGED <<client, call, rooms, req, active_connections, received>>

\* lines 211-213: WebSocketDisconnect is raised in receive_text; the
\* websocket is removed from the registry, then the farewell broadcast starts
Disconnect(w) ==
    /\ ws[w].pc = "receive"
    /\ active_connections' = manager_disconnect(active_connections, w)
    /\ ws' = [Disturbed(ws, w) EXCEPT ![w] =
                [ pc |-> "farewell", sent |-> ws[w].sent,
                  msg |-> Left(w), idx |-> 1,
                  start |-> active_connections', steady |-> TRUE ]]
    /\ UNCHANGED <<client, call, rooms, req, received>>

\* ConnectionManager.broadcast: one turn of its loop over the registry, the
\* send to the next connection or the end of the loop
BroadcastStep(w) ==
    /\ ws[w].pc \in {"broadcast", "farewell"}
    /\ IF ws[w].idx <= Len(active_connections)
       THEN LET to == active_connections[ws[w].idx]
            IN  /\ received' = [received EXCEPT ![to] = @ \cup {ws[w].msg}]
                /\ ws' = [ws EXCEPT ![w].idx = @ + 1]
       ELSE /\ ws' = [ws EXCEPT ![w].pc =
                        IF ws[w].pc = "broadcast" THEN "receive" ELSE "closed"]
            /\ UNCHANGED received
    /\ UNCHANGED <<client, call, rooms, req, active_connections>>

NextWs ==
    \/ \E w \in Sockets : Connect(w)
    \/ \E w \in Sockets : ReceiveText(w)
    \/ \E w \in Sockets : Disconnect(w)
    \/ \E w \in Sockets : BroadcastStep(w)

SpecWs == Init /\ [][NextWs]_vars

Elements(q) == {q[i] : i \in 1..Len(q)}

\* the handler of w has finished a "says" broadcast and waits for a text
SaysDone(w) == ws[w].pc = "receive" /\ ws[w].msg # <<>>

\* C6: a text sent by a registered connection is broadcast to every
\* registered connection, the sender included; the
\* farewell of a disconnecting connection goes to exactly the connections
\* that remain, never to the one that left.  (The registry not changing
\* under the broadcast, as in the scenario of the three connections.)
C6_FanOut ==
    \A w \in Sockets :
        /\ Left(w) \notin received[w]
        /\ (SaysDone(w) /\ ws[w].steady) =>
               /\ w \in Elements(ws[w].start)
               /\ \A x \in Elements(ws[w].start) : ws[w].msg \in received[x]
        /\ (ws[w].pc = "closed" /\ ws[w].steady) =>
               /\ \A x \in Sockets :
                      Left(w) \in received[x] <=> x \in Elements(ws[w].start)

\* A, B, C connected in that order, A sent "hi", which all three received,
\* then A left and B and C received its farewell
C6_Witness ==
    /\ ws[1].pc = "closed" /\ ws[1].steady
    /\ ws[1].start = <<2, 3>>
    /\ received[1] = {Says(1, "hi")}
    /\ received[2] = {Says(1, "hi"), Left(1)}
    /\ received[3] = {Says(1, "hi"), Left(1)}

=============================================================================
